---- MODULE Spec2Model ----
(***************************************************************************)
(* Model of the lexical product search engine: utils.py (text             *)
(* normalisation, tokenisation, numeric parsing, column detection) and    *)
(* search.py (ProductSearchEngine: load_data, _build_tfidf, search).      *)
(*                                                                         *)
(* Representation.  A Python str is a sequence of characters, each        *)
(* character a one-element string ("e_acute" and "E_acute" stand for      *)
(* U+00E9 and U+00C9, "acute_mark" for the combining mark U+0301).  A     *)
(* float is a fixed-point integer: prices, ratings and filter bounds in   *)
(* thousandths (MILLI), TF-IDF weights and norms in thousandths, cosine   *)
(* and fuzzy similarities in ten-thousandths (UNIT), final scores in      *)
(* millionths (100 * UNIT); NaN is the one float value that is not a      *)
(* number.  An Optional[float] is the record NoneF, NaNF or Num(x); an    *)
(* Optional[str] that is None is the empty sequence, which the code does  *)
(* not tell from "".  Durations are in microseconds.                      *)
(***************************************************************************)
EXTENDS Integers, Sequences, FiniteSets, TLC

VARIABLES
    engine,               \* "constructing" | "ready" | "failed": ProductSearchEngine.__init__
    products,             \* self.products
    doc_vectors,          \* self.doc_vectors
    doc_norms,            \* self.doc_norms
    idf,                  \* self.idf
    categories,           \* self.categories
    last_index_build_ms,  \* self.last_index_build_ms
    ld,                   \* the frame of the load_data call in progress
    sr,                   \* the frame of the search call in progress, and what it returned
    tk,                   \* a call of utils.tokenize on its own: its argument and its result
    global_engine,        \* app.py: the global engine
    startup_error,        \* app.py: the global startup_error
    rq                    \* app.py: the frame of each request

vars == <<engine, products, doc_vectors, doc_norms, idf, categories,
          last_index_build_ms, ld, sr, tk, global_engine, startup_error, rq>>

web == <<global_engine, startup_error, rq>>

index == <<products, doc_vectors, doc_norms, idf, categories, last_index_build_ms>>

---------------------------------------------------------------------------
(* Bounds of the model.                                                    *)

\* Longest CSV body (data rows) enumerated, besides BulkRows.
MaxRows == 3
\* Longest text handed to tokenize when it is checked on its own.
MaxTextLen == 5
\* Requests the web layer serves at the same time.
MaxRequests == 2

---------------------------------------------------------------------------
(* Sequence helpers.                                                       *)

Range(s) == { s[i] : i \in 1..Len(s) }

\* The element of a one-element set: Only({ F(v) : v \in {e} }) is F(e), with
\* e evaluated once.
Only(S) == CHOOSE v \in S : TRUE

\* The sequence a function on 1..n is.
AsSeq(f) == <<>> \o f

\* The function f, tabulated.
AsFcn(f) == f @@ <<>>

SeqsUpTo(S, n) == UNION { [1..k -> S] : k \in 0..n }

RECURSIVE Join(_, _)
Join(words, sep) ==
    IF words = <<>> THEN <<>>
    ELSE IF Len(words) = 1 THEN words[1]
    ELSE words[1] \o sep \o Join(Tail(words), sep)

Min(a, b) == IF a <= b THEN a ELSE b

\* The elements of a set of strings (sequences of characters) in Python's
\* sorted() order: lexicographic, a proper prefix first.
LOWER == <<"a", "b", "c", "d", "e", "f", "g", "h", "i", "j", "k", "l", "m",
           "n", "o", "p", "q", "r", "s", "t", "u", "v", "w", "x", "y", "z">>
UPPER == <<"A", "B", "C", "D", "E", "F", "G", "H", "I", "J", "K", "L", "M",
           "N", "O", "P", "Q", "R", "S", "T", "U", "V", "W", "X", "Y", "Z">>
DIGITS == <<"0", "1", "2", "3", "4", "5", "6", "7", "8", "9">>
WHITESPACE == {" ", "\t", "\n"}

\* Code point order of the characters of the model.
CharOrder ==
    <<"\t", "\n", " ", "!", "%", ",", "-", ".">> \o DIGITS \o UPPER \o <<"_">> \o LOWER
      \o <<"E_acute", "e_acute", "acute_mark">>

Ord(c) == CHOOSE i \in 1..Len(CharOrder) : CharOrder[i] = c

RECURSIVE StrLess(_, _)
StrLess(a, b) ==
    IF b = <<>> THEN FALSE
    ELSE IF a = <<>> THEN TRUE
    ELSE IF Head(a) = Head(b) THEN StrLess(Tail(a), Tail(b))
    ELSE Ord(Head(a)) < Ord(Head(b))

RECURSIVE Sorted(_)
Sorted(S) ==
    IF S = {} THEN <<>>
    ELSE LET m == CHOOSE x \in S : \A y \in S \ {x} : StrLess(x, y)
         IN  <<m>> \o Sorted(S \ {m})

---------------------------------------------------------------------------
(* utils.py: the static tables.                                            *)

STOPWORDS_FR_EN ==
    { <<"a">>,
      <<"a", "n">>,
      <<"a", "n", "d">>,
      <<"a", "u">>,
      <<"a", "u", "x">>,
      <<"a", "v", "e", "c">>,
      <<"c", "e">>,
      <<"c", "e", "s">>,
      <<"d", "a", "n", "s">>,
      <<"d", "e">>,
      <<"d", "e", "s">>,
      <<"d", "u">>,
      <<"e", "l", "l", "e">>,
      <<"e", "n">>,
      <<"e", "t">>,
      <<"f", "o", "r">>,
      <<"i", "l">>,
      <<"i", "l", "s">>,
      <<"i", "n">>,
      <<"i", "s">>,
      <<"l", "a">>,
      <<"l", "e">>,
      <<"l", "e", "s">>,
      <<"m", "a", "i", "s">>,
      <<"o", "f">>,
      <<"o", "n">>,
      <<"o", "r">>,
      <<"o", "u">>,
      <<"p", "a", "r">>,
      <<"p", "a", "s">>,
      <<"p", "o", "u", "r">>,
      <<"q", "u", "e">>,
      <<"q", "u", "i">>,
      <<"s", "u", "r">>,
      <<"t", "h", "e">>,
      <<"t", "o">>,
      <<"u", "n">>,
      <<"u", "n", "e">>,
      <<"w", "i", "t", "h">> }

SYNONYMS ==
    << <<<<"b", "a", "s", "k", "e", "t">>, <<"c", "h", "a", "u", "s", "s", "u", "r", "e">>>>,
       <<<<"b", "a", "s", "k", "e", "t", "s">>, <<"c", "h", "a", "u", "s", "s", "u", "r", "e">>>>,
       <<<<"s", "n", "e", "a", "k", "e", "r">>, <<"c", "h", "a", "u", "s", "s", "u", "r", "e">>>>,
       <<<<"s", "n", "e", "a", "k", "e", "r", "s">>, <<"c", "h", "a", "u", "s", "s", "u", "r", "e">>>>,
       <<<<"t", "e", "l">>, <<"t", "e", "l", "e", "p", "h", "o", "n", "e">>>>,
       <<<<"m", "o", "b", "i", "l", "e">>, <<"t", "e", "l", "e", "p", "h", "o", "n", "e">>>>,
       <<<<"s", "m", "a", "r", "t", "p", "h", "o", "n", "e">>, <<"t", "e", "l", "e", "p", "h", "o", "n", "e">>>>,
       <<<<"o", "r", "d", "i">>, <<"o", "r", "d", "i", "n", "a", "t", "e", "u", "r">>>>,
       <<<<"l", "a", "p", "t", "o", "p">>, <<"o", "r", "d", "i", "n", "a", "t", "e", "u", "r">>>>,
       <<<<"n", "o", "t", "e", "b", "o", "o", "k">>, <<"o", "r", "d", "i", "n", "a", "t", "e", "u", "r">>>>,
       <<<<"c", "a", "d", "e", "a", "u", "x">>, <<"c", "a", "d", "e", "a", "u">>>>,
       <<<<"a", "n", "n", "i", "v">>, <<"a", "n", "n", "i", "v", "e", "r", "s", "a", "i", "r", "e">>>>,
       <<<<"r", "u", "n", "i", "n", "g">>, <<"r", "u", "n", "n", "i", "n", "g">>>>,
       <<<<"c", "h", "a", "u", "s", "s", "u", "r">>, <<"c", "h", "a", "u", "s", "s", "u", "r", "e">>>> >>

COLUMN_CANDIDATES ==
    << <<"title", <<<<"t", "i", "t", "l", "e">>,
            <<"n", "a", "m", "e">>,
            <<"p", "r", "o", "d", "u", "c", "t", "_", "n", "a", "m", "e">>,
            <<"n", "o", "m">>,
            <<"t", "i", "t", "r", "e">>,
            <<"p", "r", "o", "d", "u", "c", "t">>>>>>,
       <<"description", <<<<"d", "e", "s", "c", "r", "i", "p", "t", "i", "o", "n">>,
            <<"d", "e", "s", "c">>,
            <<"d", "e", "t", "a", "i", "l", "s">>,
            <<"c", "o", "n", "t", "e", "n", "t">>>>>>,
       <<"price", <<<<"p", "r", "i", "c", "e">>,
            <<"s", "e", "l", "l", "i", "n", "g", "_", "p", "r", "i", "c", "e">>,
            <<"p", "r", "i", "x">>,
            <<"a", "m", "o", "u", "n", "t">>,
            <<"c", "o", "s", "t">>>>>>,
       <<"rating", <<<<"r", "a", "t", "i", "n", "g">>,
            <<"a", "v", "e", "r", "a", "g", "e", "_", "r", "a", "t", "i", "n", "g">>,
            <<"n", "o", "t", "e">>,
            <<"s", "t", "a", "r", "s">>>>>>,
       <<"image_url", <<<<"i", "m", "a", "g", "e", "_", "u", "r", "l">>,
            <<"i", "m", "a", "g", "e">>,
            <<"i", "m", "a", "g", "e", "s">>,
            <<"t", "h", "u", "m", "b", "n", "a", "i", "l">>,
            <<"p", "h", "o", "t", "o">>>>>>,
       <<"category", <<<<"c", "a", "t", "e", "g", "o", "r", "y">>,
            <<"c", "a", "t", "e", "g", "o", "r", "i", "e">>,
            <<"s", "u", "b", "_", "c", "a", "t", "e", "g", "o", "r", "y">>,
            <<"t", "y", "p", "e">>,
            <<"d", "e", "p", "a", "r", "t", "m", "e", "n", "t">>>>>>,
       <<"brand", <<<<"b", "r", "a", "n", "d">>,
            <<"m", "a", "r", "q", "u", "e">>,
            <<"m", "a", "k", "e", "r">>>>>>,
       <<"url", <<<<"u", "r", "l">>,
            <<"p", "r", "o", "d", "u", "c", "t", "_", "u", "r", "l">>,
            <<"l", "i", "n", "k">>,
            <<"h", "r", "e", "f">>>>>> >>

SynonymKeys == { SYNONYMS[i][1] : i \in 1..Len(SYNONYMS) }

\* SYNONYMS.get(token, token)
SynonymsGet(token) ==
    IF token \in SynonymKeys
    THEN SYNONYMS[CHOOSE i \in 1..Len(SYNONYMS) : SYNONYMS[i][1] = token][2]
    ELSE token

---------------------------------------------------------------------------
(* utils.py: strip_accents, normalize_text, tokenize.                      *)

\* str.lower() on one character.
LowerChar(c) ==
    IF c \in Range(UPPER) THEN LOWER[CHOOSE i \in 1..26 : UPPER[i] = c]
    ELSE IF c = "E_acute" THEN "e_acute"
    ELSE c

\* unicodedata.normalize("NFD", c) for one character: a precomposed letter
\* becomes its base letter followed by the combining mark.
NFDChar(c) == IF c = "e_acute" THEN <<"e", "acute_mark">>
              ELSE IF c = "E_acute" THEN <<"E", "acute_mark">>
              ELSE <<c>>

\* unicodedata.category(char) == "Mn"
IsMn(c) == c = "acute_mark"

IsNotMn(c) == ~IsMn(c)

RECURSIVE NFD(_)
NFD(text) == IF text = <<>> THEN <<>> ELSE NFDChar(Head(text)) \o NFD(Tail(text))

strip_accents(text) == SelectSeq(NFD(text), IsNotMn)

\* str.lower()
Lower(text) == AsSeq([i \in 1..Len(text) |-> LowerChar(text[i])])

\* The characters re.sub(r"[^a-z0-9\s]", " ", cleaned) keeps.
KeepChar(c) == c \in Range(LOWER) \/ c \in Range(DIGITS) \/ c \in WHITESPACE

ReplaceNoise(text) ==
    AsSeq([i \in 1..Len(text) |-> IF KeepChar(text[i]) THEN text[i] ELSE " "])

IsSpaceAt(text, i) == i >= 1 /\ i <= Len(text) /\ text[i] \in WHITESPACE

\* re.sub(r"\s+", " ", cleaned): every run of whitespace becomes one space.
RECURSIVE CollapseFrom(_, _)
CollapseFrom(text, i) ==
    IF i > Len(text) THEN <<>>
    ELSE (IF ~IsSpaceAt(text, i) THEN <<text[i]>>
          ELSE IF IsSpaceAt(text, i - 1) THEN <<>> ELSE <<" ">>)
         \o CollapseFrom(text, i + 1)

CollapseSpaces(text) == CollapseFrom(text, 1)

\* str.strip(): from the first to the last character that is not whitespace.
Strip(text) ==
    LET solid == { i \in 1..Len(text) : text[i] \notin WHITESPACE }
    IN  IF solid = {} THEN <<>>
        ELSE SubSeq(text, CHOOSE i \in solid : \A j \in solid : i <= j,
                          CHOOSE i \in solid : \A j \in solid : j <= i)

IsNotSpace(c) == c # " "

normalize_text(text, keep_spaces) ==
    IF text = <<>> THEN <<>>
    ELSE Only({ IF keep_spaces THEN cleaned ELSE SelectSeq(cleaned, IsNotSpace) :
                cleaned \in { Strip(collapsed) :
                  collapsed \in { CollapseSpaces(replaced) :
                    replaced \in { ReplaceNoise(deaccented) :
                      deaccented \in { strip_accents(lowered) :
                        lowered \in { Lower(t) : t \in {text} } } } } } })

\* str.split(): the maximal runs of non-whitespace characters, in order; the
\* word that starts at i ends before the next whitespace.
WordAt(text, i) ==
    LET stops == { j \in i..Len(text) : IsSpaceAt(text, j + 1) \/ j = Len(text) }
    IN  SubSeq(text, i, CHOOSE j \in stops : \A k \in stops : j <= k)

RECURSIVE SplitFrom(_, _)
SplitFrom(text, i) ==
    IF i > Len(text) THEN <<>>
    ELSE (IF ~IsSpaceAt(text, i) /\ (i = 1 \/ IsSpaceAt(text, i - 1))
          THEN <<WordAt(text, i)>> ELSE <<>>)
         \o SplitFrom(text, i + 1)

Split(text) == Only({ SplitFrom(t, 1) : t \in {text} })

\* A faulty loop: a word already produced is not produced again.
RECURSIVE TokenizeWordsOnce(_, _)
TokenizeWordsOnce(words, i) ==
    IF i > Len(words) THEN <<>>
    ELSE (IF /\ SynonymsGet(words[i]) \notin STOPWORDS_FR_EN
             /\ Len(SynonymsGet(words[i])) > 1
             /\ \A j \in 1..(i - 1) : SynonymsGet(words[j]) # SynonymsGet(words[i])
          THEN <<SynonymsGet(words[i])>> ELSE <<>>)
         \o TokenizeWordsOnce(words, i + 1)

\* A faulty tokenize: no word is dropped.
TokenizeUnfiltered(text) == Split(normalize_text(text, TRUE))

\* The loop of tokenize over normalized.split().
RECURSIVE TokenizeWords(_, _)
TokenizeWords(words, i) ==
    IF i > Len(words) THEN <<>>
    ELSE (IF SynonymsGet(words[i]) \notin STOPWORDS_FR_EN /\ Len(SynonymsGet(words[i])) > 1
          THEN <<SynonymsGet(words[i])>> ELSE <<>>)
         \o TokenizeWords(words, i + 1)

tokenize(text) ==
    Only({ IF normalized = <<>> THEN <<>>
           ELSE Only({ TokenizeWords(words, 1) : words \in {Split(normalized)} }) :
           normalized \in {normalize_text(text, TRUE)} })

---------------------------------------------------------------------------
(* Optional[float].  NoneF is None, Num(x) the float x/1000, NaNF the      *)
(* float nan.  An ordering comparison with nan is false, as in Python.    *)

NoneF == [k |-> "none", v |-> 0]
NaNF == [k |-> "nan", v |-> 0]
Num(x) == [k |-> "num", v |-> x]

\* a < b and a > b on floats
FloatLt(a, b) == a.k = "num" /\ b.k = "num" /\ a.v < b.v
FloatGt(a, b) == FloatLt(b, a)

---------------------------------------------------------------------------
(* utils.py: parse_numeric.  Digits after the third decimal are dropped.   *)
(* An absent cell (None) and an empty cell are both <<>>: parse_numeric    *)
(* returns None for both.                                                  *)

IsNotBlank(c) == c # " "
IsNotPercent(c) == c # "%"
IsNotComma(c) == c # ","
IsComma(c) == c = ","
IsNumericChar(c) == c \in Range(DIGITS) \/ c = "." \/ c = "-"
IsDot(c) == c = "."

DigitValue(c) == (CHOOSE i \in 1..10 : DIGITS[i] = c) - 1

RECURSIVE DigitsValue(_, _)
DigitsValue(ds, acc) ==
    IF ds = <<>> THEN acc ELSE DigitsValue(Tail(ds), 10 * acc + DigitValue(Head(ds)))

IndexOf(text, c) == CHOOSE i \in 1..Len(text) : text[i] = c /\ \A j \in 1..(i - 1) : text[j] # c

\* float(cleaned) for a string of digits, "." and "-": None for a ValueError.
ParseFloat(cleaned) ==
    LET neg   == cleaned # <<>> /\ Head(cleaned) = "-"
        body  == IF neg THEN Tail(cleaned) ELSE cleaned
        dots  == Len(SelectSeq(body, IsDot))
        whole == IF dots = 0 THEN body ELSE SubSeq(body, 1, IndexOf(body, ".") - 1)
        frac  == IF dots = 0 THEN <<>> ELSE SubSeq(body, IndexOf(body, ".") + 1, Len(body))
        frac3 == SubSeq(frac \o <<"0", "0", "0">>, 1, 3)
        value == 1000 * DigitsValue(whole, 0) + DigitsValue(frac3, 0)
    IN  IF "-" \in Range(body) \/ dots > 1 \/ Len(whole) + Len(frac) = 0
        THEN NoneF
        ELSE IF neg THEN Num(0 - value) ELSE Num(value)

parse_numeric(value) ==
    LET raw == Strip(value)
    IN  IF raw = <<>> THEN NoneF
        ELSE LET c1 == SelectSeq(SelectSeq(raw, IsNotBlank), IsNotPercent)
                 c2 == IF "," \in Range(c1) /\ "." \notin Range(c1)
                            THEN IF Len(SelectSeq(c1, IsComma)) = 1
                                    /\ Len(c1) - IndexOf(c1, ",") <= 2
                                 THEN AsSeq([i \in 1..Len(c1) |->
                                          IF c1[i] = "," THEN "." ELSE c1[i]])
                                 ELSE SelectSeq(c1, IsNotComma)
                            ELSE c1
                 c3 == SelectSeq(c2, IsNumericChar)
             IN  IF c3 = <<>> \/ c3 = <<"-">> \/ c3 = <<".">> THEN NoneF
                 ELSE ParseFloat(c3)

---------------------------------------------------------------------------
(* utils.py: detect_columns.  The mapping's None is <<>>, like the empty   *)
(* header: the code only tests a mapped column for truth.                  *)

CanonicalFields == { COLUMN_CANDIDATES[i][1] : i \in 1..Len(COLUMN_CANDIDATES) }

IsNotEmpty(h) == h # <<>>

\* The headers, in order, whose normalised form is key.
HeadersFor(available, key) ==
    { i \in 1..Len(available) : normalize_text(available[i], FALSE) = key }

\* normalized_to_original[key]: the last available header that normalises to key.
NormalizedToOriginal(available, key) ==
    available[CHOOSE i \in HeadersFor(available, key) :
                  \A j \in HeadersFor(available, key) : j <= i]

\* The first candidate of a canonical field that some header normalises to.
RECURSIVE FirstCandidate(_, _)
FirstCandidate(available, candidates) ==
    IF candidates = <<>> THEN <<>>
    ELSE Only({ IF HeadersFor(available, key) # {}
                THEN NormalizedToOriginal(available, key)
                ELSE FirstCandidate(available, Tail(candidates)) :
                key \in {normalize_text(Head(candidates), FALSE)} })

\* override: a function from field names to chosen headers.
detect_columns(headers, override) ==
    LET nonEmpty  == SelectSeq(headers, IsNotEmpty)
        available == AsSeq([i \in 1..Len(nonEmpty) |-> Strip(nonEmpty[i])])
        chosen(f) == IF f \in DOMAIN override /\ override[f] \in Range(available)
                     THEN override[f] ELSE <<>>
        candidates(f) ==
            COLUMN_CANDIDATES[CHOOSE i \in 1..Len(COLUMN_CANDIDATES) :
                                  COLUMN_CANDIDATES[i][1] = f][2]
    IN  AsFcn([f \in CanonicalFields |->
                  IF chosen(f) # <<>> THEN chosen(f)
                  ELSE FirstCandidate(available, candidates(f))])

---------------------------------------------------------------------------
(* Fixed-point arithmetic standing for math.log and math.sqrt.             *)

MILLI == 10 ^ 3
UNIT == 10 ^ 4

\* sum over k of z^(2k+1) / (2k+1) in millionths, z^2 = num2 / den2.
RECURSIVE AtanhSeries(_, _, _, _)
AtanhSeries(pow, k, num2, den2) ==
    IF pow = 0 THEN 0
    ELSE pow \div (2 * k + 1) + AtanhSeries((pow * num2) \div den2, k + 1, num2, den2)

\* math.log(p / q) in thousandths, for p >= q >= 1.
LogMilli(p, q) ==
    (2 * AtanhSeries(((p - q) * 10 ^ 6) \div (p + q), 0, (p - q) * (p - q), (p + q) * (p + q)))
        \div MILLI

RECURSIVE SqrtIter(_, _)
SqrtIter(n, x) ==
    LET y == (x + n \div x) \div 2
    IN  IF y >= x THEN x ELSE SqrtIter(n, y)

\* math.sqrt(n), rounded down.
Sqrt(n) == IF n = 0 THEN 0 ELSE SqrtIter(n, n)

---------------------------------------------------------------------------
(* search.py: load_data, lines 53-88.  A CSV file is [fieldnames, rows],  *)
(* each row the sequence of its cells, one per field name (csv.DictReader *)
(* zips them).                                                            *)

\* row.get(column, ""): the cell under the last field name equal to column.
RowGet(fieldnames, cells, column) ==
    LET hits == { i \in 1..Len(fieldnames) : fieldnames[i] = column }
    IN  IF hits = {} THEN <<>>
        ELSE cells[CHOOSE i \in hits : \A j \in hits : j <= i]

\* row.get(columns[f], "") if columns[f] else ""
Cell(fieldnames, cells, columns, f) ==
    IF columns[f] # <<>> THEN RowGet(fieldnames, cells, columns[f]) ELSE <<>>

\* The product of one row and its merged_tokens, lines 61-84; idx is the
\* row's index from enumerate(reader).
BuildProduct(idx, fieldnames, cells, columns) ==
    LET title       == Strip(Cell(fieldnames, cells, columns, "title"))
        description == Strip(Cell(fieldnames, cells, columns, "description"))
        category    == Strip(Cell(fieldnames, cells, columns, "category"))
        brand       == Strip(Cell(fieldnames, cells, columns, "brand"))
        image_url   == Strip(Cell(fieldnames, cells, columns, "image_url"))
        url         == Strip(Cell(fieldnames, cells, columns, "url"))
        price       == parse_numeric(Cell(fieldnames, cells, columns, "price"))
        rating      == parse_numeric(Cell(fieldnames, cells, columns, "rating"))
        text_parts  == SelectSeq(<<title, description, category, brand>>, IsNotEmpty)
        merged_tokens == tokenize(Join(text_parts, <<" ">>))
    IN  [product |->
            [id |-> idx, title |-> title, description |-> description,
             category |-> category, brand |-> brand, price |-> price,
             rating |-> rating, image_url |-> image_url, url |-> url,
             searchable_text |-> Join(merged_tokens, <<" ">>)],
         tokens |-> merged_tokens]

\* A faulty loop: the last row is not read.
RECURSIVE ReadRowsButLast(_, _, _, _)
ReadRowsButLast(idx, fieldnames, rows, columns) ==
    IF idx >= Len(rows) - 1 THEN <<>>
    ELSE (IF Strip(Cell(fieldnames, rows[idx + 1], columns, "title")) = <<>>
          THEN <<>>
          ELSE <<BuildProduct(idx, fieldnames, rows[idx + 1], columns)>>)
         \o ReadRowsButLast(idx + 1, fieldnames, rows, columns)

\* The loop of lines 57-88 from row idx on: one entry per row whose stripped
\* title is not empty.
RECURSIVE ReadRows(_, _, _, _)
ReadRows(idx, fieldnames, rows, columns) ==
    IF idx >= Len(rows) THEN <<>>
    ELSE (IF Strip(Cell(fieldnames, rows[idx + 1], columns, "title")) = <<>>
          THEN <<>>
          ELSE <<BuildProduct(idx, fieldnames, rows[idx + 1], columns)>>)
         \o ReadRows(idx + 1, fieldnames, rows, columns)

\* A faulty load: the check of lines 90-91 is missing.
LoadFrameUnchecked(file, columns, read) ==
    IF file.fieldnames = <<>>
    THEN [pc |-> "raised", src |-> file, error |-> "no column headers"]
    ELSE IF columns["title"] = <<>>
    THEN [pc |-> "raised", src |-> file, error |-> "no title column"]
    ELSE [pc |-> "products", src |-> file,
          products |-> AsSeq([i \in 1..Len(read) |-> read[i].product]),
          tokenized_docs |-> AsSeq([i \in 1..Len(read) |-> read[i].tokens]),
          category_set |-> { read[i].product.category : i \in 1..Len(read) } \ {<<>>}]

\* Lines 41-91 on one file: the ValueError raised, or the locals products,
\* tokenized_docs and category_set with which line 93 is reached.
LoadFrame(file, columns, read) ==
    IF file.fieldnames = <<>>
    THEN [pc |-> "raised", src |-> file, error |-> "no column headers"]
    ELSE IF columns["title"] = <<>>
    THEN [pc |-> "raised", src |-> file, error |-> "no title column"]
    ELSE IF read = <<>>
    THEN [pc |-> "raised", src |-> file, error |-> "no valid product"]
    ELSE [pc |-> "products", src |-> file,
          products |-> AsSeq([i \in 1..Len(read) |-> read[i].product]),
          tokenized_docs |-> AsSeq([i \in 1..Len(read) |-> read[i].tokens]),
          category_set |-> { read[i].product.category : i \in 1..Len(read) } \ {<<>>}]

ReadFile(file, override) ==
    Only({ Only({ LoadFrame(file, columns, read) :
                  read \in {ReadRows(0, file.fieldnames, file.rows, columns)} }) :
           columns \in {detect_columns(file.fieldnames, override)} })

---------------------------------------------------------------------------
(* search.py: _build_tfidf, _query_vector, _cosine_similarity.  A vector  *)
(* is a function from its tokens to weights in thousandths.               *)

\* Counter(tokens)[token]
Count(tokens, token) == Cardinality({ i \in 1..Len(tokens) : tokens[i] = token })

\* doc_freq[token]
DocFreq(tokenized_docs, token) ==
    Cardinality({ d \in 1..Len(tokenized_docs) : token \in Range(tokenized_docs[d]) })

\* The table assigned to self.idf, lines 99-109.
BuildIdf(tokenized_docs) ==
    LET tokens == UNION { Range(tokenized_docs[d]) : d \in 1..Len(tokenized_docs) }
    IN  AsFcn([t \in tokens |->
                  LogMilli(1 + Len(tokenized_docs), 1 + DocFreq(tokenized_docs, t)) + MILLI])

\* len(tokens) or 1
TotalOf(tokens) == IF Len(tokens) = 0 THEN 1 ELSE Len(tokens)

\* The vector of one document, lines 114-119, against the table idfTable.
DocVector(tokens, idfTable) ==
    AsFcn([t \in Range(tokens) |->
              (Count(tokens, t) * (IF t \in DOMAIN idfTable THEN idfTable[t] ELSE 0))
                  \div TotalOf(tokens)])

RECURSIVE SumSquares(_, _)
SumSquares(vector, tokens) ==
    IF tokens = {} THEN 0
    ELSE LET t == CHOOSE x \in tokens : TRUE
         IN  vector[t] * vector[t] + SumSquares(vector, tokens \ {t})

\* math.sqrt(sum(value * value for value in vector.values()))
Norm(vector) == Sqrt(SumSquares(vector, DOMAIN vector))

\* _query_vector: only the tokens of the query that self.idf knows.
QueryVector(query_tokens, idfTable) ==
    AsFcn([t \in Range(query_tokens) \cap DOMAIN idfTable |->
              (Count(query_tokens, t) * idfTable[t]) \div TotalOf(query_tokens)])

RECURSIVE Dot(_, _, _)
Dot(qvec, dvec, tokens) ==
    IF tokens = {} THEN 0
    ELSE LET t == CHOOSE x \in tokens : TRUE
         IN  qvec[t] * (IF t \in DOMAIN dvec THEN dvec[t] ELSE 0)
                 + Dot(qvec, dvec, tokens \ {t})

\* _cosine_similarity, in ten-thousandths.
CosineSimilarity(qvec, qnorm, dvec, dnorm) ==
    IF qnorm = 0 \/ dnorm = 0 THEN 0
    ELSE (((Dot(qvec, dvec, DOMAIN qvec) * 100) \div qnorm) * 100) \div dnorm

---------------------------------------------------------------------------
(* difflib.SequenceMatcher(None, a, b).ratio(), as _fuzzy_score uses it:  *)
(* no junk, and texts far shorter than the 200 characters at which the    *)
(* automatic junk heuristic starts.                                       *)

\* The length of the common run of a from i and b from j.
RECURSIVE CommonRun(_, _, _, _)
CommonRun(a, b, i, j) ==
    IF i > Len(a) \/ j > Len(b) \/ a[i] # b[j] THEN 0
    ELSE 1 + CommonRun(a, b, i + 1, j + 1)

\* find_longest_match: <<i, j, k>> with k maximal, then i minimal, then j
\* minimal; k = 0 when a and b share no character.
LongestMatch(a, b) ==
    LET runs  == { <<i, j, CommonRun(a, b, i, j)>> : i \in 1..Len(a), j \in 1..Len(b) }
        sizes == { r[3] : r \in runs }
        k     == CHOOSE x \in sizes : \A y \in sizes : y <= x
        tops  == { r \in runs : r[3] = k }
    IN  IF k = 0 THEN <<1, 1, 0>>
        ELSE CHOOSE m \in tops :
                 \A n \in tops : m[1] < n[1] \/ (m[1] = n[1] /\ m[2] <= n[2])

\* The total size of get_matching_blocks(): the longest block, then the
\* blocks to its left and to its right.
RECURSIVE Matches(_, _)
Matches(a, b) ==
    IF a = <<>> \/ b = <<>> THEN 0
    ELSE Only({ IF m[3] = 0 THEN 0
                ELSE m[3]
                     + Matches(SubSeq(a, 1, m[1] - 1), SubSeq(b, 1, m[2] - 1))
                     + Matches(SubSeq(a, m[1] + m[3], Len(a)),
                               SubSeq(b, m[2] + m[3], Len(b))) :
                m \in {LongestMatch(a, b)} })

\* ratio(), in ten-thousandths: 2.0 * matches / (len(a) + len(b)).
Ratio(a, b) ==
    IF Len(a) + Len(b) = 0 THEN UNIT
    ELSE (2 * Matches(a, b) * UNIT) \div (Len(a) + Len(b))

\* _fuzzy_score
FuzzyScore(query_tokens, title) ==
    Only({ IF title_tokens = <<>> THEN 0
           ELSE Only({ Ratio(ab[1], ab[2]) :
                       ab \in {<<Join(Sorted(Range(query_tokens)), <<" ">>),
                                 Join(Sorted(Range(title_tokens)), <<" ">>)>>} }) :
           title_tokens \in {tokenize(title)} })
---------------------------------------------------------------------------
(* search.py: search.  args is the record of the call's arguments; a      *)
(* category of None and the empty category are both <<>>, which line 182  *)
(* treats alike.                                                          *)

\* Weights of final_score, in hundredths, and its bonuses, in ten-thousandths.
TFIDF_WEIGHT == 72
FUZZY_WEIGHT == 22
CATEGORY_BONUS == 1200
BRAND_BONUS == 800
\* trimmed[:5]
TOP_SCORES == 5
\* limit: int = 30
DEFAULT_LIMIT == 30

\* Faulty filters: a product without a price or a rating is compared like
\* any other.
PassesFiltersComparingAbsent(product, args) ==
    /\ ~(args.min_price # NoneF /\ FloatLt(product.price, args.min_price))
    /\ ~(args.max_price # NoneF /\ FloatGt(product.price, args.max_price))
    /\ ~(args.category # <<>> /\ product.category # args.category)
    /\ ~(args.min_rating # NoneF /\ FloatLt(product.rating, args.min_rating))

\* Lines 178-185: the product is not skipped by a filter.
PassesFilters(product, args) ==
    /\ ~(args.min_price # NoneF
            /\ (product.price = NoneF \/ FloatLt(product.price, args.min_price)))
    /\ ~(args.max_price # NoneF
            /\ (product.price = NoneF \/ FloatGt(product.price, args.max_price)))
    /\ ~(args.category # <<>> /\ product.category # args.category)
    /\ ~(args.min_rating # NoneF
            /\ (product.rating = NoneF \/ FloatLt(product.rating, args.min_rating)))

\* Lines 187-215: the SearchResult of one product; score is in millionths.
ScoreProduct(product, query_tokens, qvec, qnorm, dvec, dnorm) ==
    LET tfidf_score == CosineSimilarity(qvec, qnorm, dvec, dnorm)
        fuzzy_score == FuzzyScore(query_tokens, product.title)
        token_set   == Range(query_tokens)
        matched_tokens ==
            Sorted(token_set \cap Range(Split(product.searchable_text)))
        category_bonus ==
            (IF product.category # <<>>
                /\ token_set \cap Range(tokenize(product.category)) # {}
             THEN CATEGORY_BONUS ELSE 0)
            + (IF product.brand # <<>>
                  /\ token_set \cap Range(tokenize(product.brand)) # {}
               THEN BRAND_BONUS ELSE 0)
    IN  [product |-> product,
         score |-> TFIDF_WEIGHT * tfidf_score + FUZZY_WEIGHT * fuzzy_score
                       + 100 * category_bonus,
         tfidf_score |-> tfidf_score,
         fuzzy_score |-> fuzzy_score,
         category_bonus |-> category_bonus,
         matched_tokens |-> matched_tokens]

\* Lines 171-172 and 187-215 for every product that has a vector and a norm:
\* what the loop computes for a product does not depend on the filters.
ScoredProducts(prods, vectors, norms, idfTable, query_tokens) ==
    Only({ AsSeq([idx \in 1..Min(Len(prods), Min(Len(vectors), Len(norms))) |->
                     ScoreProduct(prods[idx], query_tokens, q[1], q[2],
                                  vectors[idx], norms[idx])]) :
           q \in { <<qvec, Norm(qvec)>> : qvec \in {QueryVector(query_tokens, idfTable)} } })

\* The loop of lines 175-215 from product idx on: the results appended.
RECURSIVE ScanProducts(_, _, _, _)
ScanProducts(idx, prods, args, scored) ==
    IF idx > Len(prods) THEN <<>>
    ELSE (IF PassesFilters(prods[idx], args) /\ scored[idx].score > 0
          THEN <<scored[idx]>> ELSE <<>>)
         \o ScanProducts(idx + 1, prods, args, scored)

\* self.doc_vectors[idx] or self.doc_norms[idx] raises IndexError: some
\* product that passes the filters has no vector or no norm.
ScanRaises(prods, vectors, norms, args) ==
    \E idx \in 1..Len(prods) :
        PassesFilters(prods[idx], args) /\ (idx > Len(vectors) \/ idx > Len(norms))

\* A faulty sort: r goes before the results of its own score.
InsertBeforeEqual(sorted, r) ==
    LET n == Cardinality({ i \in 1..Len(sorted) : sorted[i].score > r.score })
    IN  SubSeq(sorted, 1, n) \o <<r>> \o SubSeq(sorted, n + 1, Len(sorted))

\* list.sort(key=score, reverse=True) inserts r after the results whose score
\* is at least its own: the sort is stable.
InsertByScore(sorted, r) ==
    LET n == Cardinality({ i \in 1..Len(sorted) : sorted[i].score >= r.score })
    IN  SubSeq(sorted, 1, n) \o <<r>> \o SubSeq(sorted, n + 1, Len(sorted))

RECURSIVE SortByScore(_, _)
SortByScore(results, sorted) ==
    IF results = <<>> THEN sorted
    ELSE SortByScore(Tail(results), InsertByScore(sorted, Head(results)))

\* results[:n]
Trim(results, n) ==
    IF n >= 0 THEN SubSeq(results, 1, Min(n, Len(results)))
    ELSE SubSeq(results, 1, Len(results) + n)

\* round(x, 2) of a duration in milliseconds, kept in microseconds.
Round2(us) == ((us + 5) \div 10) * 10

\* round(x, 4) of a score in millionths, in ten-thousandths.
Round4(score) == (score + 50) \div 100

\* A faulty debug block: trimmed[:3].
TopScoresOfThree(trimmed) ==
    AsSeq([i \in 1..Min(3, Len(trimmed)) |->
              [title |-> trimmed[i].product.title,
               final |-> Round4(trimmed[i].score),
               tfidf |-> trimmed[i].tfidf_score,
               fuzzy |-> trimmed[i].fuzzy_score,
               bonus |-> trimmed[i].category_bonus]])

\* Lines 221-230.
TopScores(trimmed) ==
    AsSeq([i \in 1..Min(TOP_SCORES, Len(trimmed)) |->
              [title |-> trimmed[i].product.title,
               final |-> Round4(trimmed[i].score),
               tfidf |-> trimmed[i].tfidf_score,
               fuzzy |-> trimmed[i].fuzzy_score,
               bonus |-> trimmed[i].category_bonus]])

---------------------------------------------------------------------------
(* The inputs enumerated: CSV files and search arguments.                  *)

TextTel == <<"T", "e", "l">>
TextMug == <<"M", "u", "g">>
TextMobile == <<"M", "o", "b", "i", "l", "e">>

\* The header line of the CSV of tests/test_utils.py, and one without any
\* column detect_columns takes for the title.
HeadersFull ==
    << <<"T", "i", "t", "l", "e">>,
       <<"d", "e", "s", "c", "r", "i", "p", "t", "i", "o", "n">>,
       <<"s", "e", "l", "l", "i", "n", "g", "_", "p", "r", "i", "c", "e">>,
       <<"a", "v", "e", "r", "a", "g", "e", "_", "r", "a", "t", "i", "n", "g">>,
       <<"c", "a", "t", "e", "g", "o", "r", "y">>,
       <<"b", "r", "a", "n", "d">> >>
HeadersNoTitle == << <<"s", "k", "u">>, <<"p", "r", "i", "x">> >>

\* Rows under HeadersFull: a whitespace-only title; a product with a rating,
\* a category and a brand and no price; a product with a price only.
RowBlank == << <<" ", " ">>, <<>>, <<"5">>, <<>>, <<>>, <<>> >>
RowTel == << TextTel, <<>>, <<>>, <<"4", ".", "2">>, TextMobile, <<"L", "G">> >>
RowMug == << <<" ">> \o TextMug, <<>>, <<"1", "9", ",", "9">>, <<>>, <<>>, <<>> >>
RowPool == {RowBlank, RowTel, RowMug}

\* A catalogue with more than TOP_SCORES products, and the files a catalogue
\* is replaced by while searches run.
BulkRows == <<RowTel, RowMug, RowTel, RowBlank, RowMug, RowTel, RowMug>>

Files ==
    { [fieldnames |-> <<>>, rows |-> <<>>],
      [fieldnames |-> HeadersNoTitle, rows |-> << <<TextTel, <<"5">>>> >>],
      [fieldnames |-> HeadersFull, rows |-> BulkRows] }
    \cup { [fieldnames |-> HeadersFull, rows |-> rows] : rows \in SeqsUpTo(RowPool, MaxRows) }

ReloadFiles ==
    { [fieldnames |-> <<>>, rows |-> <<>>],
      [fieldnames |-> HeadersFull, rows |-> <<RowTel>>],
      [fieldnames |-> HeadersFull, rows |-> <<RowMug, RowBlank, RowTel>>] }

\* ProductSearchEngine(csv_path): column_override or {}
column_override == [f \in {} |-> <<>>]

\* Measured durations (time.perf_counter differences), in microseconds.
BuildTimes == {1234, 5678}
QueryTimes == {321}

Queries ==
    { <<>>,
      <<"l", "e", " ", "x", " ", "D", "E">>,
      <<"T", "E_acute", "l", "!">>,
      <<"m", "u", "g", " ", "t", "e", "l">> }

SearchArgs ==
    [query : Queries,
     min_price : {NoneF, Num(10000), Num(100000), NaNF},
     max_price : {NoneF, Num(10000), Num(100000)},
     category : {<<>>, TextMobile, <<"m", "o", "b", "i", "l", "e">>},
     min_rating : {NoneF, Num(4000)},
     debug : BOOLEAN,
     limit : {1, DEFAULT_LIMIT}]

\* search(query): every keyword argument at its default.
DefaultArgs ==
    [query : Queries, min_price : {NoneF}, max_price : {NoneF}, category : {<<>>},
     min_rating : {NoneF}, debug : {FALSE}, limit : {DEFAULT_LIMIT}]

\* The texts tokenize is checked on by itself.
TextChars == {"t", "e", "l", " ", "E_acute", ","}
Texts == SeqsUpTo(TextChars, MaxTextLen)

---------------------------------------------------------------------------
(* ProductSearchEngine.load_data, one action per statement that assigns   *)
(* to the engine.  ld.pc is the statement the call is about to run.       *)

Idle == [pc |-> "idle"]

\* What lines 41-91 make of each file.
FileReads == { ReadFile(file, column_override) : file \in Files }
ReloadReads == { ReadFile(file, column_override) : file \in ReloadFiles }

\* Lines 41-91: open, check, read and tokenize the file; nothing is assigned
\* to self.  start is taken on line 41.
LoadRead(reads) ==
    /\ ld.pc = "idle"
    /\ engine \in {"constructing", "ready"}
    /\ ld' \in reads
    /\ UNCHANGED <<engine, index, sr, tk, web>>

\* The ValueError leaves load_data; raised in __init__, no engine exists.
LoadRaise ==
    /\ ld.pc = "raised"
    /\ ld' = Idle
    /\ engine' = IF engine = "constructing" THEN "failed" ELSE engine
    /\ UNCHANGED <<index, sr, tk, web>>

\* Line 93: self.products = products
LoadProducts ==
    /\ ld.pc = "products"
    /\ products' = ld.products
    /\ ld' = [ld EXCEPT !.pc = "idf"]
    /\ UNCHANGED <<engine, doc_vectors, doc_norms, idf, categories,
                   last_index_build_ms, sr, tk, web>>

\* Lines 99-109: self.idf = {...}
LoadIdf ==
    /\ ld.pc = "idf"
    /\ idf' = BuildIdf(ld.tokenized_docs)
    /\ ld' = [ld EXCEPT !.pc = "vectors"]
    /\ UNCHANGED <<engine, products, doc_vectors, doc_norms, categories,
                   last_index_build_ms, sr, tk, web>>

\* Line 111: self.doc_vectors = []
LoadResetVectors ==
    /\ ld.pc = "vectors"
    /\ doc_vectors' = <<>>
    /\ ld' = [ld EXCEPT !.pc = "norms"]
    /\ UNCHANGED <<engine, products, doc_norms, idf, categories,
                   last_index_build_ms, sr, tk, web>>

\* Line 112: self.doc_norms = []
LoadResetNorms ==
    /\ ld.pc = "norms"
    /\ doc_norms' = <<>>
    /\ ld' = [ld EXCEPT !.pc = IF ld.tokenized_docs = <<>>
                                THEN "categories" ELSE "append_vector"]
    /\ UNCHANGED <<engine, products, doc_vectors, idf, categories,
                   last_index_build_ms, sr, tk, web>>

\* Lines 113-121: the vector of the next document, from self.idf.
LoadAppendVector ==
    /\ ld.pc = "append_vector"
    /\ Len(doc_vectors) < Len(ld.tokenized_docs)
    /\ doc_vectors' = Append(doc_vectors,
                             DocVector(ld.tokenized_docs[Len(doc_vectors) + 1], idf))
    /\ ld' = [ld EXCEPT !.pc = "append_norm"]
    /\ UNCHANGED <<engine, products, doc_norms, idf, categories,
                   last_index_build_ms, sr, tk, web>>

\* Lines 120 and 122: its norm; then the next document, or line 95.
LoadAppendNorm ==
    /\ ld.pc = "append_norm"
    /\ doc_norms' = Append(doc_norms, Norm(doc_vectors[Len(doc_vectors)]))
    /\ ld' = [ld EXCEPT !.pc = IF Len(doc_vectors) < Len(ld.tokenized_docs)
                                THEN "append_vector" ELSE "categories"]
    /\ UNCHANGED <<engine, products, doc_vectors, idf, categories,
                   last_index_build_ms, sr, tk, web>>

\* Line 95: self.categories = sorted(category_set)
LoadCategories ==
    /\ ld.pc = "categories"
    /\ categories' = Sorted(ld.category_set)
    /\ ld' = [ld EXCEPT !.pc = "build_ms"]
    /\ UNCHANGED <<engine, products, doc_vectors, doc_norms, idf,
                   last_index_build_ms, sr, tk, web>>

\* Line 96, and the return; returning from __init__, the engine exists.
LoadBuildMs ==
    /\ ld.pc = "build_ms"
    /\ \E elapsed \in BuildTimes : last_index_build_ms' = elapsed
    /\ ld' = Idle
    /\ engine' = "ready"
    /\ UNCHANGED <<products, doc_vectors, doc_norms, idf, categories, sr, tk, web>>

LoadStep(reads) ==
    \/ LoadRead(reads)
    \/ LoadRaise
    \/ LoadProducts
    \/ LoadIdf
    \/ LoadResetVectors
    \/ LoadResetNorms
    \/ LoadAppendVector
    \/ LoadAppendNorm
    \/ LoadCategories
    \/ LoadBuildMs

---------------------------------------------------------------------------
(* ProductSearchEngine.search: one action, the whole call.  sr keeps the  *)
(* arguments and what the call returned until the caller drops them.      *)

\* Lines 162-232 on the engine as it is now; scored is what lines 187-215
\* compute for each product.
SearchOutcome(args, query_tokens, scored, elapsed) ==
    LET diagnostics  ==
            [query_tokens |-> query_tokens,
             index_build_ms |-> Round2(last_index_build_ms),
             query_time_ms |-> 0,
             total_products |-> Len(products)]
        results == ScanProducts(1, products, args, scored)
        trimmed == Trim(SortByScore(results, <<>>), args.limit)
        timed   == [diagnostics EXCEPT !.query_time_ms = Round2(elapsed)]
    IN  IF query_tokens = <<>>
        THEN [pc |-> "returned", args |-> args, results |-> <<>>,
              diagnostics |-> diagnostics]
        ELSE IF ScanRaises(products, doc_vectors, doc_norms, args)
        THEN [pc |-> "raised", args |-> args, error |-> "IndexError"]
        ELSE [pc |-> "returned", args |-> args, results |-> trimmed,
              diagnostics |-> IF args.debug
                              THEN timed @@ [top_scores |-> TopScores(trimmed)]
                              ELSE timed]

\* A faulty search: _query_vector enters the unknown tokens of the query in
\* self.idf.
SearchCallCachingIdf(argsPool) ==
    /\ engine = "ready"
    /\ sr.pc = "idle"
    /\ \E query \in { a.query : a \in argsPool } :
       \E query_tokens \in {tokenize(query)} :
       \E scored \in {IF query_tokens = <<>> THEN <<>>
                      ELSE ScoredProducts(products, doc_vectors, doc_norms, idf,
                                          query_tokens)} :
       \E args \in { a \in argsPool : a.query = query }, elapsed \in QueryTimes :
          /\ sr' = SearchOutcome(args, query_tokens, scored, elapsed)
          /\ idf' = AsFcn([t \in DOMAIN idf \cup Range(query_tokens) |->
                              IF t \in DOMAIN idf THEN idf[t] ELSE 0])
    /\ UNCHANGED <<engine, products, doc_vectors, doc_norms, categories,
                   last_index_build_ms, ld, tk, web>>

\* A call of search with arguments of argsPool.  Line 161 and the scores
\* depend on the query alone; the filters, limit and debug on the rest.
SearchCall(argsPool) ==
    /\ engine = "ready"
    /\ sr.pc = "idle"
    /\ \E query \in { a.query : a \in argsPool } :
       \E query_tokens \in {tokenize(query)} :
       \E scored \in {IF query_tokens = <<>> THEN <<>>
                      ELSE ScoredProducts(products, doc_vectors, doc_norms, idf,
                                          query_tokens)} :
       \E args \in { a \in argsPool : a.query = query }, elapsed \in QueryTimes :
          sr' = SearchOutcome(args, query_tokens, scored, elapsed)
    /\ UNCHANGED <<engine, index, ld, tk, web>>

\* Any call of search.
Search == SearchCall(SearchArgs)

\* A call search(query).
SearchDefault == SearchCall(DefaultArgs)

\* The caller is done with the results (or with the exception).
SearchDone ==
    /\ sr.pc # "idle"
    /\ sr' = Idle
    /\ UNCHANGED <<engine, index, ld, tk, web>>

---------------------------------------------------------------------------
(* utils.tokenize called by itself.                                        *)

Tokenize ==
    /\ tk.pc = "call"
    /\ tk' = [pc |-> "returned", text |-> tk.text, tokens |-> tokenize(tk.text)]
    /\ UNCHANGED <<engine, index, ld, sr, web>>

---------------------------------------------------------------------------
(* Specifications.                                                         *)

\* app.py, lines 16-17: no engine, no startup error, and no request yet in
\* its before-request hook.  None is the record that is not set.
NoEngine == [set |-> FALSE]
NoError == [set |-> FALSE]
Requests == 1..MaxRequests

InitWeb ==
    /\ global_engine = NoEngine
    /\ startup_error = NoError
    /\ rq = [r \in Requests |-> [pc |-> "hook"]]

\* __init__, lines 30-37, about to call load_data.
InitEngine ==
    /\ engine = "constructing"
    /\ products = <<>>
    /\ doc_vectors = <<>>
    /\ doc_norms = <<>>
    /\ idf = [t \in {} |-> 0]
    /\ categories = <<>>
    /\ last_index_build_ms = 0
    /\ ld = Idle
    /\ sr = Idle

Init == InitEngine /\ tk = Idle /\ InitWeb

\* One caller: a call runs to its end before the next one starts.
Next ==
    \/ sr.pc = "idle" /\ LoadStep(FileReads)
    \/ ld.pc = "idle" /\ Search
    \/ SearchDone

Spec == Init /\ [][Next]_vars

\* A thread that reloads and threads that search: load_data and search
\* interleave at the statements of load_data.
NextConcurrent ==
    \/ LoadStep(ReloadReads)
    \/ SearchDefault
    \/ SearchDone

SpecConcurrent == Init /\ [][NextConcurrent]_vars

\* tokenize on every text of Texts.
InitTokenize == InitEngine /\ tk \in [pc : {"call"}, text : Texts] /\ InitWeb

NextTokenize == Tokenize

SpecTokenize == InitTokenize /\ [][NextTokenize]_vars


---------------------------------------------------------------------------
(* app.py: lazy_load_engine and the request handlers.  Each request runs  *)
(* the before-request hook and then its handler, on its own thread; the   *)
(* threads interleave at the reads and writes of the two globals.  A      *)
(* frame past the hook keeps what the hook did: it set engine, it set     *)
(* startup_error, or it skipped the construction.                         *)

\* What ProductSearchEngine(CSV_PATH, COLUMN_OVERRIDE) can make of the file
\* found at CSV_PATH when it is called.
StartupReads == ReloadReads

\* Line 23, left operand: engine is None
HookReadEngine(r) ==
    /\ rq[r].pc = "hook"
    /\ rq' = [rq EXCEPT ![r] = IF global_engine = NoEngine
                                THEN [pc |-> "read_error"]
                                ELSE [pc |-> "handler", hooked |-> "skipped"]]
    /\ UNCHANGED <<engine, index, ld, sr, tk, global_engine, startup_error>>

\* Line 23, right operand: startup_error is None
HookReadError(r) ==
    /\ rq[r].pc = "read_error"
    /\ rq' = [rq EXCEPT ![r] = IF startup_error = NoError
                                THEN [pc |-> "construct"]
                                ELSE [pc |-> "handler", hooked |-> "skipped"]]
    /\ UNCHANGED <<engine, index, ld, sr, tk, global_engine, startup_error>>

\* Line 25, the call: the constructor returns an engine or raises.
HookConstruct(r) ==
    /\ rq[r].pc = "construct"
    /\ \E frame \in StartupReads :
          rq' = [rq EXCEPT ![r] =
                    IF frame.pc = "raised"
                    THEN [pc |-> "except", exc |-> frame.error]
                    ELSE [pc |-> "assign",
                          made |-> [set |-> TRUE, by |-> r,
                                    products |-> frame.products,
                                    categories |-> Sorted(frame.category_set)]]]
    /\ UNCHANGED <<engine, index, ld, sr, tk, global_engine, startup_error>>

\* Line 25, the assignment: engine = ...
HookAssignEngine(r) ==
    /\ rq[r].pc = "assign"
    /\ global_engine' = rq[r].made
    /\ rq' = [rq EXCEPT ![r] = [pc |-> "handler", hooked |-> "engine"]]
    /\ UNCHANGED <<engine, index, ld, sr, tk, startup_error>>

\* Lines 26-27: startup_error = str(exc)
HookAssignError(r) ==
    /\ rq[r].pc = "except"
    /\ startup_error' = [set |-> TRUE, message |-> rq[r].exc]
    /\ rq' = [rq EXCEPT ![r] = [pc |-> "handler", hooked |-> "error"]]
    /\ UNCHANGED <<engine, index, ld, sr, tk, global_engine>>

\* index and search, lines 32-35 and 47-50: the error page when
\* startup_error is a non-empty string, else assert engine is not None.
Handler(r) ==
    /\ rq[r].pc = "handler"
    /\ rq' = [rq EXCEPT ![r] =
                 [pc |-> "done", hooked |-> rq[r].hooked,
                  response |->
                      IF startup_error # NoError /\ startup_error.message # ""
                      THEN "error"
                      ELSE IF global_engine # NoEngine THEN "served"
                      ELSE "AssertionError"]]
    /\ UNCHANGED <<engine, index, ld, sr, tk, global_engine, startup_error>>

NextWeb ==
    \E r \in Requests :
        \/ HookReadEngine(r)
        \/ HookReadError(r)
        \/ HookConstruct(r)
        \/ HookAssignEngine(r)
        \/ HookAssignError(r)
        \/ Handler(r)

SpecWeb == Init /\ [][NextWeb]_vars
---------------------------------------------------------------------------
(* Properties of load_data.                                                *)

\* The index a successful load_data leaves, from the locals of line 93.
BuiltIndex(frame) ==
    Only({ [products |-> frame.products,
            idf |-> table,
            doc_vectors |-> vectors,
            doc_norms |-> AsSeq([i \in 1..Len(vectors) |-> Norm(vectors[i])])] :
           <<table, vectors>> \in
               { <<t, AsSeq([i \in 1..Len(frame.tokenized_docs) |->
                                DocVector(frame.tokenized_docs[i], t)])>> :
                 t \in {BuildIdf(frame.tokenized_docs)} } })

\* C1: once a first load has succeeded, whatever a search running beside a
\* rebuild can observe is a complete index: as many vectors and norms as
\* products, at least one product, and products, vectors, norms and IDF table
\* all of one load.
C1_ReadersSeeCompleteIndex ==
    engine = "ready" =>
        /\ Len(products) = Len(doc_vectors)
        /\ Len(doc_vectors) = Len(doc_norms)
        /\ Len(products) > 0
        /\ \E frame \in ReloadReads :
              /\ frame.pc = "products"
              /\ frame.products = products
              /\ BuiltIndex(frame).idf = idf
              /\ BuiltIndex(frame).doc_vectors = doc_vectors
              /\ BuiltIndex(frame).doc_norms = doc_norms

\* No load_data is running and the last one to succeed built the index.
Loaded == engine = "ready" /\ ld.pc = "idle"

\* C2: after a successful load the i-th kept product has id i, counting from
\* 0: rows skipped for their empty title consume no id.
C2_DenseIds ==
    Loaded => \A i \in 1..Len(products) : products[i].id = i - 1

\* The column each header line gives the title.
TitleColumns ==
    { <<fieldnames, detect_columns(fieldnames, column_override)["title"]>> :
      fieldnames \in { file.fieldnames : file \in Files } }

TitleColumn(fieldnames) == (CHOOSE e \in TitleColumns : e[1] = fieldnames)[2]

\* The row has a title that is not empty or whitespace.
Titled(fieldnames, cells) ==
    Strip(RowGet(fieldnames, cells, TitleColumn(fieldnames))) # <<>>

\* The files a load must fail on: no column headers, no column for the title,
\* or no row with a title.
FailingFiles ==
    { file \in Files :
        \/ file.fieldnames = <<>>
        \/ TitleColumn(file.fieldnames) = <<>>
        \/ \A r \in 1..Len(file.rows) : ~Titled(file.fieldnames, file.rows[r]) }

\* C3: a load attempt on a file without column headers, without a title
\* column or without any titled row raises, and no step of it changes
\* products, doc_vectors, doc_norms, idf, categories or last_index_build_ms.
C3_FailedLoadKeepsIndex ==
    [][/\ (ld'.pc # "idle" /\ ld'.src \in FailingFiles)
              => (ld'.pc = "raised" /\ index' = index)
       /\ (ld.pc # "idle" /\ ld.src \in FailingFiles)
              => (ld'.pc = "idle" /\ index' = index)]_vars

\* A reload has raised for want of a titled row, with an index in service.
C3_Witness ==
    /\ engine = "ready"
    /\ products # <<>>
    /\ ld.pc = "raised"
    /\ ld.src.fieldnames = HeadersFull
    /\ ld.src.rows # <<>>
    /\ ld.src \in FailingFiles

---------------------------------------------------------------------------
(* Properties of search.                                                   *)

\* a >= b on floats
FloatGe(a, b) == a.k = "num" /\ b.k = "num" /\ a.v >= b.v

ScoreTable ==
    { Only({ [built |-> built, query |-> query,
              scored |-> ScoredProducts(built.products, built.doc_vectors,
                                        built.doc_norms, built.idf, tokenize(query))] :
             built \in {BuiltIndex(frame)} }) :
      frame \in { f \in FileReads : f.pc = "products" }, query \in Queries }

\* What they give each product of the index in service, for the query of
\* the call.
Scored ==
    (CHOOSE e \in ScoreTable :
         /\ e.query = sr.args.query
         /\ e.built.products = products
         /\ e.built.doc_vectors = doc_vectors
         /\ e.built.doc_norms = doc_norms
         /\ e.built.idf = idf).scored

\* The product has a value for a bound that is given, and the value is on
\* the right side of a bound that is a number.
Within(value, bound, sign) ==
    bound # NoneF =>
        /\ value.k = "num"
        /\ bound.k = "num" => sign * value.v >= sign * bound.v

\* The product is within every bound given.
WithinBounds(product, args) ==
    /\ Within(product.price, args.min_price, 1)
    /\ Within(product.price, args.max_price, -1)
    /\ Within(product.rating, args.min_rating, 1)
    /\ args.category # <<>> => product.category = args.category

C5_RankedTrimmedResults ==
    sr.pc = "returned" =>
        LET final_score(i) == Scored[i].score
            survivors ==
                { i \in 1..Len(products) :
                    PassesFilters(products[i], sr.args) /\ final_score(i) > 0 }
            Before(i, j) ==
                \/ final_score(i) > final_score(j)
                \/ final_score(i) = final_score(j) /\ i < j
            at(k) == CHOOSE i \in 1..Len(products) :
                         products[i].id = sr.results[k].product.id
            returned == { at(k) : k \in 1..Len(sr.results) }
        IN  /\ Len(sr.results) = Min(sr.args.limit, Cardinality(survivors))
            /\ \A k \in 1..Len(sr.results) :
                  at(k) \in survivors /\ sr.results[k] = Scored[at(k)]
            /\ \A k \in 1..(Len(sr.results) - 1) : Before(at(k), at(k + 1))
            /\ \A i \in returned, j \in survivors \ returned : Before(i, j)

\* Results with a tie, and a tie cut by the limit.
C5_Witness ==
    /\ sr.pc = "returned"
    /\ Len(sr.results) >= 3
    /\ sr.results[1].score > sr.results[3].score
    /\ sr.results[1].score = sr.results[2].score
    /\ sr.results[1].product.id < sr.results[2].product.id

\* The queries without a token: every word of the normalised text is, once
\* replaced by its synonym, a stopword or a single character.
EmptyTokenQueries ==
    { query \in Queries :
        \A word \in Range(Split(normalize_text(query, TRUE))) :
            SynonymsGet(word) \in STOPWORDS_FR_EN \/ Len(SynonymsGet(word)) <= 1 }

\* C6: a query without a token returns no result and does not raise, whatever
\* the filters, limit and debug, with diagnostics carrying the empty token
\* list, the number of products and the last build latency (to 0.01 ms).
C6_EmptyQueryReturnsNothing ==
    (sr.pc # "idle" /\ sr.args.query \in EmptyTokenQueries) =>
        /\ sr.pc = "returned"
        /\ sr.results = <<>>
        /\ sr.diagnostics.query_tokens = <<>>
        /\ sr.diagnostics.total_products = Len(products)
        /\ sr.diagnostics.index_build_ms % 10 = 0
        /\ sr.diagnostics.index_build_ms - last_index_build_ms \in -5..5

\* A query of stopwords and a single character, with filters and debug.
C6_Witness ==
    /\ sr.pc = "returned"
    /\ sr.args.query = <<"l", "e", " ", "x", " ", "D", "E">>
    /\ sr.args.min_price # NoneF
    /\ sr.args.category # <<>>
    /\ sr.args.debug
    /\ sr.diagnostics.total_products > 1

\* The entries every diagnostics carries.
BaseDiagnostics == {"query_tokens", "total_products", "index_build_ms", "query_time_ms"}

\* top_scores holds the rounded component scores of the first min(5, n) results.
TopScoresOfResults ==
    LET top == sr.diagnostics.top_scores
    IN  /\ Len(top) = Min(5, Len(sr.results))
        /\ \A i \in 1..Len(top) :
              /\ top[i].final * 100 - sr.results[i].score \in -50..50
              /\ top[i].tfidf = sr.results[i].tfidf_score
              /\ top[i].fuzzy = sr.results[i].fuzzy_score
              /\ top[i].bonus = sr.results[i].category_bonus

\* C7, as stated: whenever debug is requested the diagnostics have top_scores,
\* the component scores of the first min(5, n) results, beside the four base
\* entries; without debug they have no top_scores.
C7_DebugAlwaysTopScores ==
    sr.pc = "returned" =>
        /\ BaseDiagnostics \subseteq DOMAIN sr.diagnostics
        /\ sr.args.debug => ("top_scores" \in DOMAIN sr.diagnostics /\ TopScoresOfResults)
        /\ ~sr.args.debug => "top_scores" \notin DOMAIN sr.diagnostics

\* C7, amended: the same for the calls whose query has at least one token.
C7_DebugTopScores ==
    (sr.pc = "returned" /\ sr.diagnostics.query_tokens # <<>>) =>
        /\ BaseDiagnostics \subseteq DOMAIN sr.diagnostics
        /\ sr.args.debug => ("top_scores" \in DOMAIN sr.diagnostics /\ TopScoresOfResults)
        /\ ~sr.args.debug => "top_scores" \notin DOMAIN sr.diagnostics

\* A debug call that returns more than five results.
C7_Witness ==
    /\ sr.pc = "returned"
    /\ sr.args.debug
    /\ Len(sr.results) > 5
    /\ Len(sr.diagnostics.top_scores) = 5

\* C9: a call of search, whatever its arguments, leaves products, doc_vectors,
\* doc_norms, idf, categories and last_index_build_ms as they were.
C9_SearchLeavesIndex ==
    [][(sr.pc = "idle" /\ sr'.pc # "idle") => index' = index]_vars

\* A debug search has returned results.
C9_Witness ==
    /\ sr.pc = "returned"
    /\ sr.results # <<>>
    /\ sr.args.debug
    /\ sr.args.limit = 1

---------------------------------------------------------------------------
(* Properties of tokenize.                                                 *)

\* C8: tokenize returns the words of the normalised text, each replaced by its
\* synonym when it is a key of the table, without those that are then a
\* stopword or at most one character long, in order and with repetitions; no
\* token is a stopword, a single character or a key of the synonym table.
C8_TokenizeMapsThenDrops ==
    tk.pc = "returned" =>
        LET words == Split(normalize_text(tk.text, TRUE))
            replaced == AsSeq([i \in 1..Len(words) |->
                                  IF words[i] \in SynonymKeys
                                  THEN SynonymsGet(words[i]) ELSE words[i]])
            Kept(word) == word \notin STOPWORDS_FR_EN /\ Len(word) > 1
        IN  /\ tk.tokens = SelectSeq(replaced, Kept)
            /\ \A token \in Range(tk.tokens) :
                  /\ token \notin STOPWORDS_FR_EN
                  /\ Len(token) > 1
                  /\ token \notin SynonymKeys

\* A text with the same word twice, both kept.
C8_Witness ==
    /\ tk.pc = "returned"
    /\ Len(tk.tokens) = 2
    /\ tk.tokens[1] = tk.tokens[2]

---------------------------------------------------------------------------
(* Rebuilding from the previous source plus one row.                       *)

\* Line 93 of a load_data called on an engine with an index in service.
RebuildPublishes == engine = "ready" /\ ld.pc = "products" /\ ld'.pc = "idf"

\* The file being loaded is the file of the index in service with one titled
\* row more, at position k.
AddsRowAt(k) ==
    /\ Titled(ld.src.fieldnames, ld.src.rows[k])
    /\ \E previous \in FileReads :
          /\ previous.pc = "products"
          /\ previous.products = products
          /\ previous.src.fieldnames = ld.src.fieldnames
          /\ previous.src.rows = SubSeq(ld.src.rows, 1, k - 1)
                                     \o SubSeq(ld.src.rows, k + 1, Len(ld.src.rows))

\* Every product of the old index is in the new one with its id, and the
\* product of row k is in the new one.
KeepsIdsAndAdds(k) ==
    /\ \A i \in 1..Len(products) :
          \E j \in 1..Len(products') : products'[j] = products[i]
    /\ Len(products') = Len(products) + 1
    /\ \E j \in 1..Len(products') :
          products'[j].title = Strip(RowGet(ld.src.fieldnames, ld.src.rows[k],
                                            TitleColumn(ld.src.fieldnames)))

\* C10, as stated: wherever the new row is placed, the rebuild keeps every
\* product of the old index with its id and adds the new product.
C10_AnyPlaceKeepsIds ==
    [][RebuildPublishes =>
          \A k \in 1..Len(ld.src.rows) : AddsRowAt(k) => KeepsIdsAndAdds(k)]_vars

\* C10, amended: the same when the new row comes after every titled row of
\* the previous source.
C10_AppendedKeepsIds ==
    [][RebuildPublishes =>
          \A k \in 1..Len(ld.src.rows) :
              (/\ AddsRowAt(k)
               /\ \A m \in (k + 1)..Len(ld.src.rows) :
                     ~Titled(ld.src.fieldnames, ld.src.rows[m]))
                  => KeepsIdsAndAdds(k)]_vars

\* The products of a file with a skipped row and a new last row have just
\* replaced those of the file without that row.
C10_Witness ==
    /\ engine = "ready"
    /\ ld.pc = "idf"
    /\ products = ld.products
    /\ Len(doc_vectors) + 1 = Len(products)
    /\ Len(ld.src.rows) = 3
    /\ ~Titled(ld.src.fieldnames, ld.src.rows[1])
    /\ Titled(ld.src.fieldnames, ld.src.rows[3])
    /\ \E previous \in FileReads :
          /\ previous.pc = "products"
          /\ previous.src.rows = SubSeq(ld.src.rows, 1, 2)
          /\ previous.products = SubSeq(products, 1, Len(products) - 1)

---------------------------------------------------------------------------
(* Properties of the web layer's lazy initialisation.                      *)

\* C11: under any interleaving of requests in the before-request hook, at
\* most one request constructs the engine; engine and startup_error are
\* never both set; once startup_error is set no request calls the
\* constructor and engine stays unset; an engine that is set is never
\* replaced; and every handler runs with exactly one of the two set.
C11_LazyInitOnceAndFinal ==
    /\ [](Cardinality({ r \in Requests :
                           \/ rq[r].pc = "assign"
                           \/ rq[r].pc \in {"handler", "done"} /\ rq[r].hooked = "engine" })
              <= 1)
    /\ [](~(global_engine # NoEngine /\ startup_error # NoError))
    /\ [](\A r \in Requests :
             rq[r].pc = "handler"
                 => (global_engine # NoEngine) # (startup_error # NoError))
    /\ [][/\ startup_error # NoError
              => /\ startup_error' = startup_error
                 /\ global_engine' = global_engine
                 /\ \A r \in Requests :
                       rq'[r].pc \in {"assign", "except"} => rq'[r] = rq[r]
          /\ global_engine # NoEngine => global_engine' = global_engine]_vars
====
